---- MODULE Spec2Model ----
(***************************************************************************)
(* Model of scripts/demo/capture-demos.py: the capture-and-assembly        *)
(* pipeline (main, capture_scenario, the frame resampling, write_gif,      *)
(* stitch_gifs, stitch_webm_ffmpeg, build_demo_reels).                     *)
(*                                                                         *)
(* A frame is identified by the index in its file name (NNNN.png); a frame *)
(* sequence is a sequence of such indices.  A file is identified by the    *)
(* pair <<stem, extension>>; `files' holds the files written by this run   *)
(* and, for an animation, its number of frames.  An exception is a record  *)
(* [type, key, origin]: its class, the scenario key its message carries    *)
(* ("" when none) and the place where it was raised.                       *)
(***************************************************************************)
EXTENDS Integers, Sequences, FiniteSets, TLC

\* ------------------------------------------------------------------ bounds
\* Runner callbacks hold(d) per scenario, and the largest d.
MaxHolds == 2
MaxDup == 2
\* --target-seconds (in ms) and --gif-ms range over 0..MaxTargetMs, 1..MaxFrameMs.
MaxTargetMs == 6
MaxFrameMs == 2
\* Longest frame sequence handed to the asset-writing step on its own.
MaxN == 5
\* stitch_gifs on its own: sources, frames per clip, separator copies.
MaxSources == 3
MaxClipFrames == 2
MaxSep == 2
\* Discovery: entries of the workflow list, length of a nodes list, rows of
\* the session list, and the count asked of resolve_session_ids.
MaxItems == 2
MaxNodes == 1
MaxRows == 3
MaxCount == 2

\* ------------------------------------------------------- program constants
ScenarioKeys ==
    <<"workflows-demo", "routing-demo", "sessions-demo", "review-compare-demo">>
NumScenarios == Len(ScenarioKeys)
FirstHold == 6
LastHold == 5
ReelSeparatorHold == 6
SessionCount == 4

TimeoutError == "PlaywrightTimeoutError"
OtherError == "Exception"
NoExc == [type |-> "none", key |-> "", origin |-> ""]

\* ------------------------------------------------------------ pure helpers
Max(a, b) == IF a >= b THEN a ELSE b

Last(s) == s[Len(s)]

Repeat(x, n) == [i \in 1..n |-> x]

CeilDiv(a, b) == (a + b - 1) \div b

\* Python's round() of the quotient num / den (num >= 0, den > 0): to the
\* nearest integer, a tie going to the even one.
RoundHalfEven(num, den) ==
    LET q == num \div den
        r == num % den
    IN  IF 2 * r < den THEN q
        ELSE IF 2 * r > den THEN q + 1
        ELSE IF q % 2 = 0 THEN q ELSE q + 1

\* target_frames = max(1, ceil((target_seconds * 1000) / frame_ms)).
TargetFrames(tms, fms) == Max(1, CeilDiv(tms, fms))

\* Fault variant of SelectIdx: the quotient taken over target_frames.
SelectIdx_denominator(i, last_index, t) == RoundHalfEven(i * last_index, t)

\* Fault variant of SelectIdx: the source walked from its end.
SelectIdx_reversed(i, last_index, t) ==
    last_index - RoundHalfEven(i * last_index, t - 1)

\* idx = round((i * last_index) / (target_frames - 1)), i and idx 0-based.
SelectIdx(i, last_index, t) == RoundHalfEven(i * last_index, t - 1)

\* The selection loop: one source frame for each i in range(target_frames).
Selected(fp, t) ==
    [i \in 1..t |-> fp[SelectIdx(i - 1, Len(fp) - 1, t) + 1]]

\* The first length-adjusting branch: more frames than the target.
Downsampled(fp, t) ==
    IF fp # <<>> /\ Len(fp) > t
    THEN IF t = 1 THEN <<Last(fp)>> ELSE Selected(fp, t)
    ELSE fp

\* Fault variant of Padded: one copy too few.
Padded_oneShort(fp, t) ==
    IF fp # <<>> /\ Len(fp) < t
    THEN fp \o Repeat(Last(fp), t - Len(fp) - 1)
    ELSE fp

\* Fault variant of Padded: the first frame repeated instead of the last.
Padded_first(fp, t) ==
    IF fp # <<>> /\ Len(fp) < t
    THEN fp \o Repeat(fp[1], t - Len(fp))
    ELSE fp

\* The second length-adjusting branch: fewer frames than the target.
Padded(fp, t) ==
    IF fp # <<>> /\ Len(fp) < t
    THEN fp \o Repeat(Last(fp), t - Len(fp))
    ELSE fp

\* Both branches in the order of the code.
Resampled(fp, t) == Padded(Downsampled(fp, t), t)

\* Fault variant of WriteGifRejects: the guard left out.
WriteGifRejects_never(fp) == FALSE

\* write_gif's guard: `if not frame_paths: raise RuntimeError(...)'.
WriteGifRejects(fp) == fp = <<>>

\* snap: page.screenshot(path=frames_dir / f"{frame_index:04d}.png") writes the
\* image file of the frame frame_index; `shots' holds the image files written
\* for the scenario being captured.
Shot(written, idx) == written \cup {idx}

\* Fault variant of Snapped: the duplication count taken as it comes.
Snapped_unclamped(fp, idx, d) == fp \o Repeat(idx, d)

\* snap(duplication): max(duplication, 1) references to the frame frame_index.
Snapped(fp, idx, d) == fp \o Repeat(idx, Max(d, 1))

\* Fault variant of Handled: an except clause that catches every exception.
Handled_all(exc, key) ==
    [type |-> "RuntimeError", key |-> key, origin |-> "except"]

\* `except PlaywrightTimeoutError as exc: raise RuntimeError(...) from exc';
\* any other exception leaves the try statement as it is.
Handled(exc, key) ==
    IF exc.type = TimeoutError
    THEN [type |-> "RuntimeError", key |-> key, origin |-> "except"]
    ELSE exc

\* ------------------------------------------------------------------- state
VARIABLES
    pc, si, log, browserOpen, ffmpeg, frame_ms, target_ms,
    cpc, frame_paths, frame_index, shots, pageOpen, contextOpen, contexts, created, video_exists,
    thrown, error, captured, files, converts,
    sources, separator_hold_frames, frames,
    dpc, data, count, route, session_ids

vars ==
    <<pc, si, log, browserOpen, ffmpeg, frame_ms, target_ms,
      cpc, frame_paths, frame_index, shots, pageOpen, contextOpen, contexts, created,
      video_exists,
      thrown, error, captured, files, converts,
      sources, separator_hold_frames, frames,
      dpc, data, count, route, session_ids>>

mainVars == <<pc, si, log, browserOpen>>
argVars == <<ffmpeg, frame_ms, target_ms>>
stitchVars == <<sources, separator_hold_frames, frames>>
discVars == <<dpc, data, count, route, session_ids>>

Key == ScenarioKeys[si]

\* capture_scenario's local `context': the context new_page made last.
Context == created

Exists(f) == f \in DOMAIN files

Written(f, n) == (f :> n) @@ files

TryPositions == {"goto", "snap_first", "runner", "snap_last"}

\* ------------------------------------------------------- capture_scenario
\* main's loop body: print the progress line and call capture_scenario, which
\* resets its frame list and opens a context and a page (new_page).  The calls
\* outside the try body (new_page, and page.close / context.close in the
\* finally clause) are taken to return.
StartScenario ==
    /\ pc = "loop" /\ cpc = "idle" /\ si <= NumScenarios
    /\ log' = Append(log, Key)
    /\ frame_paths' = <<>> /\ frame_index' = 0 /\ shots' = {}
    /\ captured' = <<>>
    /\ created' = created + 1
    /\ contexts' = contexts \cup {created'}
    /\ contextOpen' = TRUE /\ pageOpen' = TRUE
    /\ video_exists' = FALSE
    /\ thrown' = NoExc
    /\ cpc' = "goto"
    /\ UNCHANGED <<pc, si, browserOpen, argVars, discVars, converts, error, files, stitchVars>>

\* page.goto(..., wait_until="domcontentloaded") returns.
Navigated ==
    /\ cpc = "goto"
    /\ cpc' = "snap_first"
    /\ UNCHANGED <<mainVars, argVars, discVars, converts, frame_paths, frame_index, shots, pageOpen,
                   contextOpen, contexts, created, video_exists, thrown, error, captured, files,
                   stitchVars>>

\* The settle pause, the cursor move and snap(6).
SnapFirst ==
    /\ cpc = "snap_first"
    /\ shots' = Shot(shots, frame_index)
    /\ frame_paths' = Snapped(frame_paths, frame_index, FirstHold)
    /\ frame_index' = frame_index + 1
    /\ cpc' = "runner"
    /\ UNCHANGED <<mainVars, argVars, discVars, converts, pageOpen, contextOpen, contexts, created, video_exists,
                   thrown, error, captured, files, stitchVars>>

\* scenario.runner(page, snap) reaches a hold(d).
RunnerHold(d) ==
    /\ cpc = "runner"
    /\ frame_index <= MaxHolds
    /\ shots' = Shot(shots, frame_index)
    /\ frame_paths' = Snapped(frame_paths, frame_index, d)
    /\ frame_index' = frame_index + 1
    /\ UNCHANGED <<mainVars, argVars, discVars, converts, cpc, pageOpen, contextOpen, contexts, created, video_exists,
                   thrown, error, captured, files, stitchVars>>

\* scenario.runner returns.
RunnerReturn ==
    /\ cpc = "runner"
    /\ cpc' = "snap_last"
    /\ UNCHANGED <<mainVars, argVars, discVars, converts, frame_paths, frame_index, shots, pageOpen,
                   contextOpen, contexts, created, video_exists, thrown, error, captured, files,
                   stitchVars>>

\* Fault variant of SnapLast: the closing snap with the default duplication.
SnapLast_default ==
    /\ cpc = "snap_last"
    /\ shots' = Shot(shots, frame_index)
    /\ frame_paths' = Snapped(frame_paths, frame_index, 1)
    /\ frame_index' = frame_index + 1
    /\ cpc' = "finally"
    /\ UNCHANGED <<mainVars, argVars, discVars, converts, pageOpen, contextOpen, contexts, created, video_exists,
                   thrown, error, captured, files, stitchVars>>

\* The closing pause and snap(5); the try body is left normally.
SnapLast ==
    /\ cpc = "snap_last"
    /\ shots' = Shot(shots, frame_index)
    /\ frame_paths' = Snapped(frame_paths, frame_index, LastHold)
    /\ frame_index' = frame_index + 1
    /\ cpc' = "finally"
    /\ UNCHANGED <<mainVars, argVars, discVars, converts, pageOpen, contextOpen, contexts, created, video_exists,
                   thrown, error, captured, files, stitchVars>>

\* A call of the try body raises: an automation timeout or anything else.
\* The except clause decides what leaves the try statement; finally runs next.
TryRaises(type) ==
    /\ cpc \in TryPositions
    /\ thrown' = [type |-> type, key |-> "", origin |-> cpc]
    /\ error' = Handled(thrown', Key)
    /\ cpc' = "finally"
    /\ UNCHANGED <<mainVars, argVars, discVars, converts, frame_paths, frame_index, shots, pageOpen,
                   contextOpen, contexts, created, video_exists, captured, files, stitchVars>>

\* Fault variant of ClosePage: the page closed on the normal path only.
ClosePage_onSuccessOnly ==
    /\ cpc = "finally"
    /\ pageOpen' = (error # NoExc)
    /\ video_exists' \in BOOLEAN
    /\ cpc' = "finally_context"
    /\ UNCHANGED <<mainVars, argVars, discVars, converts, frame_paths, frame_index, shots, contextOpen, contexts, created,
                   thrown, error, captured, files, stitchVars>>

\* finally: page.close(); the raw video's path is read off the closed page.
\* Whether that file exists afterwards is the recorder's business.
ClosePage ==
    /\ cpc = "finally"
    /\ pageOpen' = FALSE
    /\ video_exists' \in BOOLEAN
    /\ cpc' = "finally_context"
    /\ UNCHANGED <<mainVars, argVars, discVars, converts, frame_paths, frame_index, shots, contextOpen, contexts, created,
                   thrown, error, captured, files, stitchVars>>

\* Fault variant of CloseContext: the finally clause without context.close().
CloseContext_leak ==
    /\ cpc = "finally_context"
    /\ cpc' = IF error # NoExc THEN "raised" ELSE "resample"
    /\ UNCHANGED <<mainVars, argVars, discVars, converts, frame_paths, frame_index, shots, pageOpen,
                   contextOpen, contexts, created,
                   video_exists, thrown, error, captured, files, stitchVars>>

\* finally: context.close(); then the pending exception, if any, leaves
\* capture_scenario, and otherwise the asset writing starts.
CloseContext ==
    /\ cpc = "finally_context"
    /\ contextOpen' = FALSE
    /\ contexts' = contexts \ {Context}
    /\ created' = created
    /\ cpc' = IF error # NoExc THEN "raised" ELSE "resample"
    /\ UNCHANGED <<mainVars, argVars, discVars, converts, frame_paths, frame_index, shots, pageOpen,
                   video_exists, thrown, error, captured, files, stitchVars>>

\* target_frames and the two length-adjusting branches.
Resample ==
    /\ cpc = "resample"
    /\ captured' = frame_paths
    /\ frame_paths' = Resampled(frame_paths, TargetFrames(target_ms, frame_ms))
    /\ cpc' = "write_gif"
    /\ UNCHANGED <<mainVars, argVars, discVars, converts, frame_index, shots, pageOpen, contextOpen, contexts, created,
                   video_exists, thrown, error, files, stitchVars>>

\* write_gif(frame_paths, gif_path, frame_ms).
WriteGif ==
    /\ cpc = "write_gif"
    /\ IF WriteGifRejects(frame_paths)
       THEN /\ error' = [type |-> "RuntimeError", key |-> "", origin |-> "write_gif"]
            /\ cpc' = "raised"
            /\ files' = files
       ELSE /\ files' = Written(<<Key, "gif">>, Len(frame_paths))
            /\ cpc' = "video"
            /\ error' = error
    /\ UNCHANGED <<mainVars, argVars, discVars, converts, frame_paths, frame_index, shots, pageOpen,
                   contextOpen, contexts, created, video_exists, thrown, captured, stitchVars>>

\* maybe_convert_webm_to_mp4: False at once when shutil.which finds no ffmpeg;
\* otherwise what the ffmpeg process and the existence of the mp4 yield.
ConvertResults(ff) == IF ff THEN {TRUE, FALSE} ELSE {FALSE}

\* The raw video, if present, is copied to <key>.webm and the transcode to
\* <key>.mp4 is attempted (maybe_convert_webm_to_mp4); then the function returns.
CopyVideo ==
    /\ cpc = "video"
    /\ IF video_exists
       THEN /\ \E converted \in ConvertResults(ffmpeg) :
                 files' = IF converted
                          THEN Written(<<Key, "mp4">>, 0)
                               @@ Written(<<Key, "webm">>, 0)
                          ELSE Written(<<Key, "webm">>, 0)
            /\ converts' = converts \cup {Key}
       ELSE UNCHANGED <<files, converts>>
    /\ cpc' = "returned"
    /\ UNCHANGED <<mainVars, argVars, discVars, frame_paths, frame_index, shots, pageOpen,
                   contextOpen, contexts, created, video_exists, thrown, error, captured, stitchVars>>

\* ------------------------------------------------------------ stitch_gifs
\* A source animation: its number of frames (0: the file is missing) and the
\* display duration its frames carry (NoDuration: the source omits it).
NoDuration == -1

Missing == [frames |-> 0, duration |-> NoDuration]

\* The frames of source i as decoded by the seek loop, with their durations.
Decoded(i, clip, default) ==
    [j \in 1..clip.frames |->
        [src |-> i, idx |-> j - 1, sep |-> FALSE,
         duration |-> IF clip.duration = NoDuration THEN default ELSE clip.duration]]

\* Fault variant of SeparatorDue: the last source gets a separator too.
SeparatorDue_afterLast(i, m, k, fr) == k > 0 /\ i < m /\ fr # <<>>

\* `if separator_hold_frames > 0 and i < len(sources) - 1 and frames:'
SeparatorDue(i, m, k, fr) == k > 0 /\ i < m - 1 /\ fr # <<>>

\* The loop over enumerate(sources) from index i on (0-based): a missing
\* source is skipped by `continue'; otherwise its frames are appended and then,
\* when due, k copies of the last frame appended so far.
RECURSIVE StitchFrom(_, _, _, _, _)
StitchFrom(srcs, i, fr, k, default) ==
    IF i >= Len(srcs) THEN fr
    ELSE LET clip == srcs[i + 1]
         IN  IF clip.frames = 0
             THEN StitchFrom(srcs, i + 1, fr, k, default)
             ELSE LET f2 == fr \o Decoded(i, clip, default)
                      copy == [Last(f2) EXCEPT !.sep = TRUE, !.duration = default]
                      f3 == IF SeparatorDue(i, Len(srcs), k, f2)
                            THEN f2 \o Repeat(copy, k)
                            ELSE f2
                  IN  StitchFrom(srcs, i + 1, f3, k, default)

Stitched(srcs, k, default) == StitchFrom(srcs, 0, <<>>, k, default)

\* stitch_gifs(sources, output, ...): nothing is written when no frame was
\* decoded.
StitchOutput(fs, output, fr) ==
    IF fr = <<>> THEN fs ELSE (<<output, "gif">> :> Len(fr)) @@ fs

\* stitch_gifs called on its own.
StitchGifs ==
    /\ pc = "stitch"
    /\ frames' = Stitched(sources, separator_hold_frames, frame_ms)
    /\ files' = StitchOutput(files, "demo-stitched", frames')
    /\ pc' = "stitched"
    /\ UNCHANGED <<si, log, browserOpen, argVars, discVars, converts, cpc, frame_paths, frame_index, shots,
                   pageOpen, contextOpen, contexts, created, video_exists, thrown, error, captured,
                   sources, separator_hold_frames>>

\* -------------------------------------------------------------------- main
\* The animation <key>.gif as build_demo_reels finds it on disk.
GifSource(key) ==
    IF Exists(<<key, "gif">>)
    THEN [frames |-> files[<<key, "gif">>], duration |-> frame_ms]
    ELSE Missing

GifSources == [i \in 1..NumScenarios |-> GifSource(ScenarioKeys[i])]

WebmAvailable == {i \in 1..NumScenarios : Exists(<<ScenarioKeys[i], "webm">>)}

\* capture_scenario returned: the loop goes on with the next scenario.
ScenarioReturned ==
    /\ pc = "loop" /\ cpc = "returned"
    /\ si' = si + 1
    /\ cpc' = "idle"
    /\ UNCHANGED <<pc, log, browserOpen, argVars, discVars, converts, frame_paths, frame_index, shots,
                   pageOpen, contextOpen, contexts, created, video_exists, thrown, error, captured,
                   files, stitchVars>>

\* Fault variant of ScenarioRaised: a loop that swallows the exception and
\* goes on with the next scenario.
ScenarioRaised_continue ==
    /\ pc = "loop" /\ cpc = "raised"
    /\ si' = si + 1
    /\ cpc' = "idle"
    /\ UNCHANGED <<pc, log, browserOpen, argVars, discVars, converts, frame_paths, frame_index, shots,
                   pageOpen, contextOpen, contexts, created, video_exists, thrown, error, captured,
                   files, stitchVars>>

\* capture_scenario raised: nothing in main catches it, so main's finally
\* closes the browser and the exception ends the program.
ScenarioRaised ==
    /\ pc = "loop" /\ cpc = "raised"
    /\ browserOpen' = FALSE /\ contexts' = {}
    /\ pc' = "failed"
    /\ UNCHANGED <<si, log, argVars, discVars, converts, cpc, frame_paths, frame_index, shots, pageOpen,
                   contextOpen, created, video_exists, thrown, error, captured, files,
                   stitchVars>>

\* build_demo_reels, first part: the two stitch_gifs calls.
BuildGifReels ==
    /\ pc = "loop" /\ cpc = "idle" /\ si > NumScenarios
    /\ files' = StitchOutput(
                    StitchOutput(files, "demo-back-to-back",
                                 Stitched(GifSources, 0, frame_ms)),
                    "demo-stitched",
                    Stitched(GifSources, ReelSeparatorHold, frame_ms))
    /\ pc' = "reel_video"
    /\ UNCHANGED <<si, log, browserOpen, argVars, discVars, converts, cpc, frame_paths, frame_index, shots,
                   pageOpen, contextOpen, contexts, created, video_exists, thrown, error, captured,
                   stitchVars>>

ReelName == "demo-back-to-back"

\* stitch_webm_ffmpeg: False when ffmpeg is missing or no source exists;
\* otherwise what the ffmpeg process and the existence of the output yield.
StitchWebmResults(ff, avail) ==
    IF ff /\ avail # {} THEN {TRUE, FALSE} ELSE {FALSE}

\* Fault variant of ReelConvertDue: the reel is transcoded unconditionally.
ReelConvertDue_always(stitched) == TRUE

\* `if stitch_webm_ffmpeg(webm_sources, ...):'
ReelConvertDue(stitched) == stitched

\* build_demo_reels, second part: stitch_webm_ffmpeg and, only if it returned
\* True, maybe_convert_webm_to_mp4 on the video reel.
BuildVideoReel ==
    /\ pc = "reel_video"
    /\ \E stitched \in StitchWebmResults(ffmpeg, WebmAvailable) :
         \E converted \in (IF ReelConvertDue(stitched)
                           THEN ConvertResults(ffmpeg) ELSE {FALSE}) :
            /\ files' = IF converted
                        THEN (<<ReelName, "mp4">> :> 0)
                             @@ (<<ReelName, "webm">> :> 0) @@ files
                        ELSE IF stitched
                        THEN (<<ReelName, "webm">> :> 0) @@ files
                        ELSE files
            /\ converts' = IF ReelConvertDue(stitched)
                           THEN converts \cup {ReelName} ELSE converts
    /\ pc' = "close"
    /\ UNCHANGED <<si, log, browserOpen, argVars, discVars, cpc, frame_paths, frame_index, shots,
                   pageOpen, contextOpen, contexts, created, video_exists, thrown, error, captured,
                   stitchVars>>

\* main's finally after a complete run (browser.close()), the removal of the
\* transient directories and the closing line of output.
Finish ==
    /\ pc = "close"
    /\ browserOpen' = FALSE /\ contexts' = {}
    /\ log' = Append(log, "wrote assets")
    /\ pc' = "done"
    /\ UNCHANGED <<si, argVars, discVars, converts, cpc, frame_paths, frame_index, shots, pageOpen,
                   contextOpen, created, video_exists, thrown, error, captured, files,
                   stitchVars>>

\* -------------------------------------------------------- discovery helpers
\* A JSON value where the code wants a string: a string s, or anything else
\* (a missing key included, which dict.get turns into None).
NotAString == [str |-> FALSE, s |-> ""]

Str(x) == [str |-> TRUE, s |-> x]

\* nodes: the length of a list, or NotAList for anything else.
NotAList == -1

\* str.strip() on the strings of the model: " " is all whitespace.
Strip(x) == IF x = " " THEN "" ELSE x

\* A non-empty string, as `isinstance(x, str) and x' tests.
NonEmptyStr(v) == v.str /\ v.s # ""

Route(id) == <<"/workflows", id>>

\* fallback = "/workflows/wf_demo_claude_release", the initial value of
\* RESOLVED_WORKFLOW_ROUTE too.
FallbackRoute == Route("wf_demo_claude_release")

\* An entry of a list that is not a JSON object.
NonDictItem ==
    [dict |-> FALSE, id |-> NotAString, nodes |-> NotAList,
     generatedPlan |-> NotAString]

WorkflowItems ==
    {NonDictItem} \cup
    [dict : {TRUE},
     id : {NotAString, Str(""), Str("wf_a"), Str("wf_b")},
     nodes : {NotAList} \cup 0..MaxNodes,
     generatedPlan : {NotAString, Str(" "), Str("steps")}]

NonDictRow == [dict |-> FALSE, id |-> NotAString]

SessionRows ==
    {NonDictRow} \cup
    [dict : {TRUE}, id : {NotAString, Str(""), Str("s_a"), Str("s_b")}]

\* What urlopen and json.load make of a request: the endpoint is unreachable,
\* the body is not JSON, or the body is a JSON value of some shape ("list",
\* "dict", "dict_with_list": an object whose "sessions" is a list, "other").
NoResponse == [status |-> "none", shape |-> "other", items |-> <<>>]

FailedResponses ==
    {[status |-> st, shape |-> "other", items |-> <<>>] :
        st \in {"unreachable", "not_json"}}

WorkflowResponses ==
    FailedResponses
    \cup {[status |-> "ok", shape |-> sh, items |-> <<>>] :
            sh \in {"dict", "other"}}
    \cup {[status |-> "ok", shape |-> "list", items |-> items] :
            items \in UNION {[1..m -> WorkflowItems] : m \in 0..MaxItems}}

SessionResponses ==
    FailedResponses
    \cup {[status |-> "ok", shape |-> sh, items |-> <<>>] :
            sh \in {"list", "dict", "other"}}
    \cup {[status |-> "ok", shape |-> "dict_with_list", items |-> rows] :
            rows \in UNION {[1..m -> SessionRows] : m \in 0..MaxRows}}

\* urlopen(...) or json.load(response) raises.
FetchRaises(resp) == resp.status # "ok"

\* Fault variant of Caught: an except clause for the connection error only.
Caught_connectionOnly(status) == status = "unreachable"

\* `except Exception:' catches whatever the request or the parser raises.
Caught(status) == TRUE

NodeCount(item) ==
    IF ~item.dict THEN 0
    ELSE IF item.nodes # NotAList THEN item.nodes ELSE 0

GeneratedPlanScore(item) ==
    IF ~item.dict THEN 0
    ELSE IF item.generatedPlan.str /\ Strip(item.generatedPlan.s) # "" THEN 1 ELSE 0

\* Fault variant of Score: the node count ranked before the plan.
Score_nodesFirst(item) == <<NodeCount(item), GeneratedPlanScore(item)>>

Score(item) == <<GeneratedPlanScore(item), NodeCount(item)>>

\* Python's order on pairs.
PairGreater(a, b) == a[1] > b[1] \/ (a[1] = b[1] /\ a[2] > b[2])

\* max(data, key=score) from position i on: the first of the greatest entries.
RECURSIVE MaxFrom(_, _, _)
MaxFrom(items, i, best) ==
    IF i > Len(items) THEN best
    ELSE MaxFrom(items, i + 1,
                 IF PairGreater(Score(items[i]), Score(best)) THEN items[i] ELSE best)

Best(items) == MaxFrom(items, 2, items[1])

\* resolve_workflow_route once the request did not raise out of the function.
WorkflowRoute(resp) ==
    IF FetchRaises(resp) THEN FallbackRoute
    ELSE IF resp.shape # "list" \/ resp.items = <<>> THEN FallbackRoute
    ELSE LET best == Best(resp.items)
             workflow_id == IF best.dict THEN best.id ELSE NotAString
         IN  IF NonEmptyStr(workflow_id) THEN Route(workflow_id.s) ELSE FallbackRoute

\* The loop of resolve_session_ids from row i on: a row that is no object is
\* skipped by `continue'; a valid id is appended; the loop breaks once
\* len(ids) >= count, which is tested after the append.
RECURSIVE CollectIds(_, _, _, _)
CollectIds(rows, i, ids, n) ==
    IF i > Len(rows) THEN ids
    ELSE IF ~rows[i].dict THEN CollectIds(rows, i + 1, ids, n)
    ELSE LET ids2 == IF NonEmptyStr(rows[i].id) THEN Append(ids, rows[i].id.s) ELSE ids
         IN  IF Len(ids2) >= n THEN ids2 ELSE CollectIds(rows, i + 1, ids2, n)

\* resolve_session_ids once the request did not raise out of the function.
SessionIds(resp, n) ==
    IF FetchRaises(resp) THEN <<>>
    ELSE IF resp.shape # "dict_with_list" THEN <<>>
    ELSE CollectIds(resp.items, 1, <<>>, n)

\* Everything but the discovery state and the pending exception.
runVars ==
    <<mainVars, argVars, cpc, frame_paths, frame_index, shots, pageOpen,
      contextOpen, contexts, created, video_exists, thrown, captured, files, converts,
      stitchVars>>

\* The exception that leaves a discovery helper when its except clause does
\* not catch what the request raised.
Escaping(resp, helper) ==
    IF FetchRaises(resp) /\ ~Caught(resp.status)
    THEN [type |-> resp.status, key |-> "", origin |-> helper]
    ELSE NoExc

\* RESOLVED_WORKFLOW_ROUTE = resolve_workflow_route(args.base_url)
ResolveWorkflowRoute ==
    /\ dpc = "workflows"
    /\ error' = Escaping(data, "resolve_workflow_route")
    /\ IF error' # NoExc
       THEN dpc' = "failed" /\ route' = route
       ELSE dpc' = "workflows_done" /\ route' = WorkflowRoute(data)
    /\ UNCHANGED <<runVars, data, count, session_ids>>

\* resolve_workflow_route has returned: its response is gone, the global
\* RESOLVED_WORKFLOW_ROUTE holds the result.
WorkflowRouteReturned ==
    /\ dpc = "workflows_done"
    /\ data' = NoResponse
    /\ dpc' = "sessions_request"
    /\ UNCHANGED <<runVars, error, count, route, session_ids>>

\* resolve_session_ids(base_url, count=...) sends its request and gets its
\* response.
RequestSessions ==
    /\ dpc = "sessions_request"
    /\ data' \in SessionResponses
    /\ count' \in 0..MaxCount
    /\ dpc' = "sessions"
    /\ UNCHANGED <<runVars, error, route, session_ids>>

\* RESOLVED_SESSION_IDS = resolve_session_ids(...)
ResolveSessionIds ==
    /\ dpc = "sessions"
    /\ error' = Escaping(data, "resolve_session_ids")
    /\ IF error' # NoExc
       THEN dpc' = "failed" /\ session_ids' = session_ids
       ELSE dpc' = "resolved" /\ session_ids' = SessionIds(data, count)
    /\ UNCHANGED <<runVars, data, count, route>>

\* Discovery as it is behind the program when the capture starts: the globals
\* hold a route and a list of ids, here the defaults of lines 35-36.
DiscoveryDone ==
    /\ dpc = "resolved" /\ data = NoResponse /\ count = SessionCount
    /\ route = FallbackRoute /\ session_ids = <<>>

\* ---------------------------------------------------------- specifications
\* The state main is in when the browser has been launched.
Init ==
    /\ pc = "loop" /\ si = 1 /\ log = <<>> /\ browserOpen = TRUE
    /\ ffmpeg \in BOOLEAN
    /\ frame_ms \in 1..MaxFrameMs
    /\ target_ms \in 0..MaxTargetMs
    /\ cpc = "idle"
    /\ frame_paths = <<>> /\ frame_index = 0 /\ shots = {} /\ captured = <<>>
    /\ pageOpen = FALSE /\ contextOpen = FALSE /\ contexts = {} /\ created = 0
    /\ video_exists = FALSE
    /\ thrown = NoExc /\ error = NoExc
    /\ files = <<>> /\ converts = {}
    /\ sources = <<>> /\ separator_hold_frames = 0 /\ frames = <<>>
    /\ DiscoveryDone

Next ==
    \/ StartScenario
    \/ Navigated
    \/ SnapFirst
    \/ \E d \in 0..MaxDup : RunnerHold(d)
    \/ RunnerReturn
    \/ SnapLast
    \/ \E type \in {TimeoutError, OtherError} : TryRaises(type)
    \/ ClosePage
    \/ CloseContext
    \/ Resample
    \/ WriteGif
    \/ CopyVideo
    \/ ScenarioReturned
    \/ ScenarioRaised
    \/ BuildGifReels
    \/ BuildVideoReel
    \/ Finish

Spec == Init /\ [][Next]_vars

\* Frame sequences that calls of snap can build, of length n: the indices
\* start at 0 and each entry repeats its predecessor or follows it by one.
SnapSeqs(n) ==
    {s \in [1..n -> 0..(n - 1)] :
        /\ n >= 1 => s[1] = 0
        /\ \A i \in 1..(n - 1) : s[i + 1] \in {s[i], s[i] + 1}}

\* The asset-writing step of capture_scenario on its own: any frame sequence
\* of up to MaxN entries, the empty one included, and any target length.
InitAssets ==
    /\ pc = "loop" /\ si = 1 /\ log = <<ScenarioKeys[1]>> /\ browserOpen = TRUE
    /\ ffmpeg \in BOOLEAN
    /\ frame_ms \in 1..MaxFrameMs
    /\ target_ms \in 0..MaxTargetMs
    /\ cpc = "resample"
    /\ \E n \in 0..MaxN : frame_paths \in SnapSeqs(n)
    /\ frame_index = IF frame_paths = <<>> THEN 0 ELSE Last(frame_paths) + 1
    /\ shots = 0..(frame_index - 1)
    /\ captured = <<>>
    /\ pageOpen = FALSE /\ contextOpen = FALSE /\ contexts = {} /\ created = 1
    /\ video_exists \in BOOLEAN
    /\ thrown = NoExc /\ error = NoExc
    /\ files = <<>> /\ converts = {}
    /\ sources = <<>> /\ separator_hold_frames = 0 /\ frames = <<>>
    /\ DiscoveryDone

NextAssets == Resample \/ WriteGif \/ CopyVideo

SpecAssets == InitAssets /\ [][NextAssets]_vars

\* stitch_gifs on its own: up to MaxSources sources, each missing or a clip of
\* 1..MaxClipFrames frames, and 0..MaxSep separator copies.
Clips ==
    {Missing} \cup
    [frames : 1..MaxClipFrames, duration : {NoDuration} \cup 1..MaxFrameMs]

InitStitch ==
    /\ pc = "stitch" /\ si = 1 /\ log = <<>> /\ browserOpen = FALSE
    /\ ffmpeg = FALSE
    /\ frame_ms \in 1..MaxFrameMs
    /\ target_ms = 0
    /\ cpc = "idle"
    /\ frame_paths = <<>> /\ frame_index = 0 /\ shots = {} /\ captured = <<>>
    /\ pageOpen = FALSE /\ contextOpen = FALSE /\ contexts = {} /\ created = 0
    /\ video_exists = FALSE
    /\ thrown = NoExc /\ error = NoExc
    /\ files = <<>> /\ converts = {}
    /\ \E m \in 0..MaxSources : sources \in [1..m -> Clips]
    /\ separator_hold_frames \in 0..MaxSep
    /\ frames = <<>>
    /\ DiscoveryDone

NextStitch == StitchGifs

SpecStitch == InitStitch /\ [][NextStitch]_vars

\* The two discovery helpers as main calls them, for every response.
InitDiscovery ==
    /\ pc = "discovery" /\ si = 1 /\ log = <<>> /\ browserOpen = FALSE
    /\ ffmpeg = FALSE /\ frame_ms = 1 /\ target_ms = 0
    /\ cpc = "idle"
    /\ frame_paths = <<>> /\ frame_index = 0 /\ shots = {} /\ captured = <<>>
    /\ pageOpen = FALSE /\ contextOpen = FALSE /\ contexts = {} /\ created = 0
    /\ video_exists = FALSE
    /\ thrown = NoExc /\ error = NoExc
    /\ files = <<>> /\ converts = {}
    /\ sources = <<>> /\ separator_hold_frames = 0 /\ frames = <<>>
    /\ dpc = "workflows" /\ data \in WorkflowResponses /\ count = SessionCount
    /\ route = FallbackRoute /\ session_ids = <<>>

NextDiscovery ==
    \/ ResolveWorkflowRoute
    \/ WorkflowRouteReturned
    \/ RequestSessions
    \/ ResolveSessionIds

SpecDiscovery == InitDiscovery /\ [][NextDiscovery]_vars

\* ------------------------------------------------------------- properties
TargetLen == TargetFrames(target_ms, frame_ms)

\* capture_scenario is past the two length-adjusting branches.
AfterResample == cpc \in {"write_gif", "video", "returned", "raised"}

\* capture_scenario has left its try statement, finally clause included.
AfterFinally == cpc \in {"raised", "resample", "write_gif", "video", "returned", "idle"}

AssetExts == {"gif", "webm", "mp4"}

ReelStems == {"demo-back-to-back", "demo-stitched"}

NoAssetOf(key) == \A ext \in AssetExts : ~Exists(<<key, ext>>)

NoReel == \A stem \in ReelStems : \A ext \in AssetExts : ~Exists(<<stem, ext>>)

RECURSIVE SumFrames(_)
SumFrames(srcs) ==
    IF srcs = <<>> THEN 0 ELSE srcs[1].frames + SumFrames(Tail(srcs))

AllExist(srcs) == \A i \in 1..Len(srcs) : srcs[i].frames >= 1

\* C1: for every captured sequence of n >= 1 frames and every target length
\* t >= 1, the sequence handed to write_gif has exactly t frames.
C1_ResampleLength ==
    (AfterResample /\ Len(captured) >= 1) => Len(frame_paths) = TargetLen

C1_Witness ==
    /\ cpc = "write_gif"
    /\ TargetLen >= 2 /\ Len(captured) > TargetLen
    /\ Len(frame_paths) = TargetLen

\* C2 as stated: for n > t >= 1 the resampled sequence starts with the
\* original first frame and ends with the original last frame.
C2_FirstLastPreserved ==
    (AfterResample /\ Len(captured) > TargetLen /\ TargetLen >= 1)
        => /\ frame_paths[1] = captured[1]
           /\ Last(frame_paths) = Last(captured)

\* C2 amended: for n > t >= 2 the resampled sequence starts with the original
\* first frame and ends with the original last frame; for n > t = 1 it is the
\* original last frame alone.
C2_FirstLastPreservedFromTwo ==
    (AfterResample /\ Len(captured) > TargetLen)
        => IF TargetLen >= 2
           THEN /\ frame_paths[1] = captured[1]
                /\ Last(frame_paths) = Last(captured)
           ELSE frame_paths = <<Last(captured)>>

C2_Witness ==
    /\ cpc = "write_gif"
    /\ TargetLen >= 2 /\ Len(captured) > TargetLen
    /\ captured[1] # Last(captured)
    /\ frame_paths[1] = captured[1]
    /\ Last(frame_paths) = Last(captured)

\* C3: for 1 <= n <= t the resampled sequence is the original one, element
\* for element, followed by exactly t - n copies of the original last frame.
C3_PadRepeatsLast ==
    (AfterResample /\ Len(captured) >= 1 /\ Len(captured) <= TargetLen)
        => /\ Len(frame_paths) = TargetLen
           /\ \A i \in 1..Len(captured) : frame_paths[i] = captured[i]
           /\ \A i \in (Len(captured) + 1)..TargetLen :
                  frame_paths[i] = captured[Len(captured)]

C3_Witness ==
    /\ cpc = "write_gif"
    /\ Len(captured) >= 2 /\ Len(captured) + 2 <= TargetLen
    /\ captured[1] # Last(captured)
    /\ Len(frame_paths) = TargetLen

\* C4: an empty frame sequence stays empty through both branches whatever the
\* target length, write_gif raises, and no animation file is written.
C4_EmptyFails ==
    (AfterResample /\ captured = <<>>)
        => /\ frame_paths = <<>>
           /\ ~Exists(<<Key, "gif">>)
           /\ cpc \in {"write_gif", "raised"}
           /\ cpc = "raised" =>
                 /\ error.type = "RuntimeError"
                 /\ error.origin = "write_gif"

C4_Witness ==
    /\ cpc = "raised" /\ captured = <<>> /\ TargetLen >= 2
    /\ error.origin = "write_gif"
    /\ files = <<>>

\* C5: with m >= 1 sources that all exist and k >= 0 separator copies,
\* stitch_gifs assembles sum(clip frame counts) + k * (m - 1) frames.
C5_StitchCount ==
    (pc = "stitched" /\ Len(sources) >= 1 /\ AllExist(sources))
        => Len(frames) =
             SumFrames(sources) + separator_hold_frames * (Len(sources) - 1)

C5_Witness ==
    /\ pc = "stitched" /\ Len(sources) >= 2 /\ AllExist(sources)
    /\ separator_hold_frames >= 1
    /\ Len(frames) > SumFrames(sources)

\* C6: with k > 0 and any subset of the sources missing, every separator copy
\* in the stitched list is followed by a decoded frame of a later clip: the
\* list never ends with separator copies.
C6_NoTrailingSeparator ==
    (pc = "stitched" /\ separator_hold_frames > 0)
        => \A p \in 1..Len(frames) :
              frames[p].sep =>
                 \E q \in (p + 1)..Len(frames) :
                    ~frames[q].sep /\ frames[q].src > frames[p].src

\* C7: whatever the try body did (success, automation timeout, any other
\* exception), the page and the context are closed once capture_scenario has
\* left its try statement, so before it returns or raises.
C7_AlwaysClosed ==
    AfterFinally => (~pageOpen /\ ~contextOpen)

C7_Witness ==
    /\ cpc = "raised" /\ thrown.type = OtherError /\ thrown.origin = "runner"
    /\ ~pageOpen /\ ~contextOpen

\* C8: an automation timeout in the try body leaves capture_scenario as a
\* RuntimeError naming the scenario key, with no gif, webm or mp4 written for
\* that scenario; any other exception leaves it unchanged.
C8_TimeoutTagged ==
    (cpc = "raised" /\ thrown # NoExc)
        => /\ thrown.type = TimeoutError =>
                 /\ error.type = "RuntimeError"
                 /\ error.key = Key
                 /\ NoAssetOf(Key)
           /\ thrown.type # TimeoutError => error = thrown

C8_Witness ==
    /\ cpc = "raised" /\ si >= 2
    /\ thrown.type = TimeoutError /\ thrown.origin = "runner"
    /\ error.key = Key
    /\ Exists(<<ScenarioKeys[1], "gif">>)

NavigationTimedOut ==
    thrown.type = TimeoutError /\ thrown.origin = "goto"

\* C9 as stated: when a scenario's navigation times out, the failure carries
\* the scenario key and the scenarios after it are still captured.
C9_SiblingsStillCaptured ==
    (pc \in {"failed", "done"} /\ NavigationTimedOut)
        => /\ error.key = Key
           /\ \A j \in (si + 1)..NumScenarios : Exists(<<ScenarioKeys[j], "gif">>)

\* C9 amended: when a scenario's navigation times out, the failure carries the
\* scenario key and ends the run: the scenarios before it keep their
\* animations, the scenarios after it are neither started nor captured.
C9_FailureReportedRunAborted ==
    (NavigationTimedOut /\ AfterFinally)
        => /\ error.type = "RuntimeError" /\ error.key = Key
           /\ cpc = "raised" /\ pc \in {"loop", "failed"}
           /\ \A j \in 1..(si - 1) : Exists(<<ScenarioKeys[j], "gif">>)
           /\ \A j \in (si + 1)..NumScenarios :
                 /\ NoAssetOf(ScenarioKeys[j])
                 /\ \A p \in 1..Len(log) : log[p] # ScenarioKeys[j]

C9_Witness ==
    /\ pc = "failed" /\ NavigationTimedOut
    /\ si = 2 /\ error.key = ScenarioKeys[2]
    /\ Exists(<<ScenarioKeys[1], "gif">>)
    /\ NoAssetOf(ScenarioKeys[3])

\* C10: once a scenario has raised, no later scenario is started, no file is
\* written any more and build_demo_reels is never reached: the run has no
\* reel.
C10_RaiseIsFatal ==
    [][error # NoExc =>
          /\ NoReel
          /\ log' = log /\ si' = si /\ files' = files
          /\ pc' \in {"loop", "failed"}]_vars

C10_Witness ==
    /\ pc = "failed" /\ si = 1
    /\ error.type = "RuntimeError" /\ error.key = ScenarioKeys[1]
    /\ log = <<ScenarioKeys[1]>>
    /\ ~browserOpen

\* capture_scenario holds the frame list as the calls of snap built it.
BeforeResample ==
    cpc \in {"goto", "snap_first", "runner", "snap_last", "finally",
             "finally_context", "resample"}

FramesOf(fp) == {fp[i] : i \in 1..Len(fp)}

NonDecreasing(fp) == \A i \in 1..(Len(fp) - 1) : fp[i] <= fp[i + 1]

\* What the claim expects of one call snap(d) with the frame list fp, the
\* frame index idx and the image files written so far.
SnapEffect(d) ==
    /\ frame_index \notin shots
    /\ shots' = shots \cup {frame_index}
    /\ Cardinality(shots') = Cardinality(shots) + 1
    /\ frame_paths' = frame_paths \o Repeat(frame_index, IF d >= 1 THEN d ELSE 1)
    /\ frame_index' = frame_index + 1

\* C11: each call snap(d) writes exactly one image file, appends d references
\* to that one new frame (one reference when d <= 0) and advances the frame
\* index by exactly 1; so the distinct frames of the sequence are as many as
\* the frame index and the indices along the sequence never decrease.
C11_SnapContract ==
    /\ [](BeforeResample =>
            /\ FramesOf(frame_paths) = 0..(frame_index - 1)
            /\ Cardinality(FramesOf(frame_paths)) = frame_index
            /\ shots = 0..(frame_index - 1)
            /\ NonDecreasing(frame_paths))
    /\ [][/\ SnapFirst => SnapEffect(FirstHold)
          /\ SnapLast => SnapEffect(LastHold)
          /\ \A d \in 0..MaxDup : RunnerHold(d) => SnapEffect(d)]_vars

C11_Witness ==
    /\ cpc = "resample" /\ frame_index = 4
    /\ frame_paths = Repeat(0, FirstHold) \o <<1>> \o <<2, 2>> \o Repeat(3, LastHold)
    /\ shots = 0..3

\* The response is a non-empty list of objects that all carry a usable id.
UsableWorkflowList ==
    /\ data.status = "ok" /\ data.shape = "list" /\ data.items # <<>>
    /\ \A i \in 1..Len(data.items) :
          data.items[i].dict /\ data.items[i].id.str /\ data.items[i].id.s # ""

HasPlan(item) ==
    item.generatedPlan.str /\ item.generatedPlan.s \notin {"", " "}

Nodes(item) == IF item.nodes = NotAList THEN 0 ELSE item.nodes

\* C12: on a non-empty workflow list whose entries all carry a non-empty
\* string id, the route is /workflows/<id> of an entry that no other entry
\* beats: none has a plan when it has none, and none with the same plan
\* status has more nodes.
C12_BestWorkflow ==
    (dpc = "workflows_done" /\ UsableWorkflowList)
        => \E i \in 1..Len(data.items) :
              /\ route = <<"/workflows", data.items[i].id.s>>
              /\ \A j \in 1..Len(data.items) :
                    /\ HasPlan(data.items[j]) => HasPlan(data.items[i])
                    /\ HasPlan(data.items[j]) = HasPlan(data.items[i])
                          => Nodes(data.items[j]) <= Nodes(data.items[i])

C12_Witness ==
    /\ dpc = "workflows_done" /\ UsableWorkflowList
    /\ Len(data.items) = 2
    /\ ~HasPlan(data.items[1]) /\ Nodes(data.items[1]) = 1
    /\ HasPlan(data.items[2]) /\ Nodes(data.items[2]) = 0
    /\ data.items[1].id.s = "wf_a" /\ data.items[2].id.s = "wf_b"
    /\ route = <<"/workflows", "wf_b">>

\* C13: whatever the API answers, no exception leaves resolve_workflow_route
\* or resolve_session_ids; on an unreachable endpoint the first returns the
\* fixed fallback route and the second the empty list.
C13_DiscoveryNeverRaises ==
    /\ error = NoExc /\ dpc # "failed"
    /\ (dpc = "workflows_done" /\ data.status = "unreachable")
          => route = <<"/workflows", "wf_demo_claude_release">>
    /\ (dpc = "resolved" /\ data.status = "unreachable") => session_ids = <<>>

C13_Witness ==
    /\ dpc = "resolved" /\ data.status = "unreachable"
    /\ route = <<"/workflows", "wf_demo_claude_release">>
    /\ session_ids = <<>>

\* The valid ids of the rows, in the order of the rows.
RECURSIVE ValidIds(_)
ValidIds(rows) ==
    IF rows = <<>> THEN <<>>
    ELSE IF rows[1].dict /\ rows[1].id.str /\ rows[1].id.s # ""
         THEN <<rows[1].id.s>> \o ValidIds(Tail(rows))
         ELSE ValidIds(Tail(rows))

IsPrefix(a, b) == Len(a) <= Len(b) /\ a = SubSeq(b, 1, Len(a))

SessionsListed ==
    dpc = "resolved" /\ data.status = "ok" /\ data.shape = "dict_with_list"

\* C14: for every count >= 0 and every session list, resolve_session_ids
\* returns at most count ids, a prefix of the valid ids in the API's order.
C14_AtMostCountPrefix ==
    SessionsListed
        => /\ Len(session_ids) <= count
           /\ IsPrefix(session_ids, ValidIds(data.items))

NoMp4 == \A f \in DOMAIN files : f[2] # "mp4"

GifReels == \A stem \in ReelStems : Exists(<<stem, "gif">>)

\* C15: when ffmpeg is unavailable the run fails only if a scenario raised:
\* every scenario that reaches asset writing returns with its GIF, and with
\* its webm when a raw video exists; a complete run has the four GIFs and both
\* GIF reels; no mp4 and no webm reel is ever written; and (whether or not
\* ffmpeg is available) the transcode of the reel is attempted only when the
\* webm reel was produced.
C15_NoTranscoder ==
    /\ ~ffmpeg =>
          /\ NoMp4
          /\ ~Exists(<<ReelName, "webm">>)
          /\ pc = "failed" => thrown # NoExc
          /\ cpc = "returned" =>
                /\ Exists(<<Key, "gif">>)
                /\ video_exists <=> Exists(<<Key, "webm">>)
                /\ video_exists <=> Key \in converts
          /\ pc \in {"reel_video", "close", "done"} =>
                /\ \A i \in 1..NumScenarios : Exists(<<ScenarioKeys[i], "gif">>)
                /\ GifReels
    /\ ReelName \in converts => Exists(<<ReelName, "webm">>)

C15_Witness ==
    /\ ~ffmpeg /\ pc = "done"
    /\ Exists(<<ScenarioKeys[1], "webm">>) /\ ~Exists(<<ScenarioKeys[2], "webm">>)
    /\ ScenarioKeys[1] \in converts
    /\ GifReels

\* The entries of fp from position a to position b.
Entries(fp, a, b) == {fp[p] : p \in a..b}

\* C16: nothing is captured before the navigation returned; the runner starts
\* on a sequence that is exactly 6 references to frame 0; and a scenario that
\* leaves the try statement without exception hands to the resampling a
\* sequence of at least 11 entries made of the 6 references to frame 0, then
\* the runner's captures (frames 1 .. highest - 1), then 5 references to the
\* highest-index frame, taken after the runner returned.
C16_Bookends ==
    /\ cpc \in {"goto", "snap_first"} => frame_paths = <<>> /\ frame_index = 0
    /\ cpc = "runner" /\ frame_index = 1 => frame_paths = Repeat(0, 6)
    /\ cpc = "snap_last" => /\ frame_index >= 1
                            /\ Len(frame_paths) >= 6
                            /\ Entries(frame_paths, 1, 6) = {0}
                            /\ Entries(frame_paths, 7, Len(frame_paths))
                                   \subseteq 1..(frame_index - 1)
    /\ cpc = "resample" =>
          LET n == Len(frame_paths)
              high == frame_index - 1
          IN  /\ thrown = NoExc /\ error = NoExc
              /\ n >= 11 /\ high >= 1
              /\ Entries(frame_paths, 1, 6) = {0}
              /\ Entries(frame_paths, n - 4, n) = {high}
              /\ Entries(frame_paths, 7, n - 5) \subseteq 1..(high - 1)

C16_Witness ==
    /\ cpc = "resample" /\ thrown = NoExc
    /\ frame_paths = Repeat(0, 6) \o <<1, 1>> \o Repeat(2, 5)

Abs(x) == IF x < 0 THEN 0 - x ELSE x

\* C17: resampling never reorders.  Every frame handed to write_gif is a frame
\* of the captured sequence and the frames keep the captured order; and when
\* frames are selected (n > t >= 2), output position i takes the source
\* position round(i*(n-1)/(t-1)), which lies within 0..n-1, is a nearest
\* index to i*(n-1)/(t-1) and does not decrease with i.
C17_OrderPreserved ==
    (AfterResample /\ Len(captured) >= 1) =>
        LET n == Len(captured)
            t == TargetLen
            Pos(i) == SelectIdx(i, n - 1, t)
        IN  /\ FramesOf(frame_paths) \subseteq FramesOf(captured)
            /\ NonDecreasing(frame_paths)
            /\ (n > t /\ t >= 2) =>
                  /\ \A i \in 0..(t - 1) :
                        /\ Pos(i) \in 0..(n - 1)
                        /\ frame_paths[i + 1] = captured[Pos(i) + 1]
                        /\ 2 * Abs(Pos(i) * (t - 1) - i * (n - 1)) <= t - 1
                  /\ \A i \in 0..(t - 2) : Pos(i) <= Pos(i + 1)

C17_Witness ==
    /\ cpc = "write_gif"
    /\ captured = <<0, 1, 2, 3, 4>> /\ TargetLen = 3
    /\ frame_paths = <<0, 2, 4>>

\* capture_scenario is between new_page and the end of its finally clause.
Capturing == cpc \in TryPositions \cup {"finally", "finally_context"}

\* What the claim expects of the step that starts a scenario.
OwnNewContext ==
    /\ contexts = {}
    /\ created' = created + 1
    /\ contexts' = {created'}
    /\ log' = Append(log, ScenarioKeys[created'])

\* C18: scenarios are captured one at a time in list order.  At most one
\* context is open; it is the one made for the scenario in progress, the
\* k-th context for the k-th scenario of the list; none is open once the
\* finally clause is over, so none while assets are written and none when
\* the next scenario makes its own.
C18_OneContextAtATime ==
    /\ [](/\ Cardinality(contexts) <= 1
          /\ created <= NumScenarios
          /\ created = Cardinality({p \in 1..Len(log) : log[p] # "wrote assets"})
          /\ \A p \in 1..created : log[p] = ScenarioKeys[p]
          /\ IF Capturing
             THEN contexts = {created} /\ created = si
             ELSE contexts = {}
          /\ (pc = "loop" /\ cpc = "idle") => created = si - 1)
    /\ [][/\ (cpc = "idle" /\ cpc' # "idle") => OwnNewContext
          /\ created' # created => (cpc = "idle" /\ cpc' = "goto")
          /\ files' # files => (contexts = {} /\ contexts' = {})]_vars

C18_Witness ==
    /\ cpc = "finally_context" /\ si = 3
    /\ contexts = {3} /\ created = 3
    /\ Exists(<<ScenarioKeys[1], "gif">>) /\ Exists(<<ScenarioKeys[2], "gif">>)

====
